---- MODULE Spec2Model ----
(***************************************************************************)
(* Model of the key-state and MIDI session logic of the Experience         *)
(* component (src/src/Experience.jsx, second revision, lines 204-399) and  *)
(* of the pointer handlers of PianoKey (src/src/PianoKey.jsx).             *)
(*                                                                         *)
(* Everything runs on the single event thread of the browser, so every     *)
(* handler is one atomic action.  Tween completion is left to the host's   *)
(* frame loop and is modelled as an action that may fire at any time after *)
(* the tween was started.                                                  *)
(***************************************************************************)
EXTENDS Integers, Sequences, FiniteSets

\* ---------------------------------------------------------------- constants

\* number of piano keys: the bounds checks `index >= 88`
NumKeys == 88
\* MIDI note of key 0: `note - 21`
NoteOffset == 21
\* the debounce window: `now - last < 10`
DebounceMs == 10
\* status bytes tested by onMIDIMessage
NoteOn == 144
NoteOff == 128
\* a status byte that is neither (control change)
ControlChange == 176

\* ------------------------------------------------------------------- bounds

\* number of input ports of the machine
NumPorts == 1
\* the clock stops advancing here
MaxTime == 20
\* performance.now() when the component has mounted
StartTime == 10

Ports == 1..NumPorts
\* the notes the devices send: one below the keyboard, its two ends, one above
Notes == {NoteOffset - 1, NoteOffset, NoteOffset + NumKeys - 1, NoteOffset + NumKeys}
\* the keys those notes and the pointer can touch
Keys == {n - NoteOffset : n \in Notes} \cap (0..(NumKeys - 1))
\* the indices lastMIDIEventTime can be asked for: any `note - 21`
MsgKeys == {n - NoteOffset : n \in Notes}
Commands == {NoteOff, NoteOn, ControlChange}
Velocities == {0, 1}
TickSteps == {5, 10}

\* the two targets of a tween, in thousandths of a radian: `down ? 0.05 : 0`
PressedAngle == 50
RestAngle == 0

VARIABLES
  mounted,            \* the component is mounted (effects set up, cleanups not yet run)
  access,             \* the device-access request: "pending", "granted", "failed"
  onstatechange,      \* midiAccess.onstatechange is the session's callback
  connected,          \* connected[p]: port p is attached (is in midiAccess.inputs)
  handler,            \* handler[p]: port p's onmidimessage is onMIDIMessage
  activeInputs,       \* activeInputs.current
  pressedKeys,        \* the pressedKeys state
  keyRefs,            \* the indices i with keyRefs.current[i] set
  animationsRef,      \* animationsRef.current[k]: "none", "live" or "dead"
  tweens,             \* tweens[k]: targets of the live tweens on key k, oldest first
  lastMIDIEventTime,  \* lastMIDIEventTime.current[k], 0 when absent
  now,                \* performance.now()
  \* history variables
  last,               \* the handler that ran last, its input and what it emitted
  lastEvent,          \* lastEvent[k]: the last event applied to k through onKeyDown/onKeyUp
  accepted,           \* accepted[k]: time of the last MIDI press/release of k, -1 if none
  lastMsg,            \* the command and velocity of the message handled last, when recorded
  accessAtTeardown,   \* access when the cleanup ran, "none" before
  setupErrors,        \* how many times the catch of setupMIDI has logged
  tweenTarget,        \* tweenTarget[k]: target of the tween started last for k, -1 if none
  layout              \* a lookup in keyProps: the two indices asked for and the entries found

vars == <<mounted, access, onstatechange, connected, handler, activeInputs,
          pressedKeys, keyRefs, animationsRef, tweens, lastMIDIEventTime, now,
          last, lastMsg, lastEvent, accepted, accessAtTeardown,
          setupErrors, tweenTarget, layout>>

sessionVars == <<mounted, access, onstatechange, connected, handler, activeInputs,
                 accessAtTeardown, setupErrors>>
keyVars == <<pressedKeys, animationsRef, tweens, lastEvent, tweenTarget>>
midiVars == <<lastMIDIEventTime, accepted>>

NoKey == 0 - 1
\* the record of a handler that ran: which one, on which port or key, the
\* event it emitted, whether that event was redundant (a press of a pressed
\* key, a release of a key not pressed) and whether it killed a live tween
Op(op, port, key, emit) ==
  [op |-> op, port |-> port, key |-> key, emit |-> emit,
   noop |-> FALSE, killed |-> FALSE]

\* no lookup in keyProps is under way
NoLayout == <<>>

Init ==
  /\ layout = NoLayout
  /\ mounted = TRUE
  /\ access = "pending"
  /\ onstatechange = FALSE
  /\ connected \in [Ports -> BOOLEAN]
  /\ handler = [p \in Ports |-> FALSE]
  /\ activeInputs = {}
  /\ pressedKeys = {}
  /\ keyRefs = Keys
  /\ animationsRef = [k \in Keys |-> "none"]
  /\ tweens = [k \in Keys |-> <<>>]
  /\ lastMIDIEventTime = [k \in MsgKeys |-> 0]
  /\ now = StartTime
  /\ last = Op("mount", 0, NoKey, "none")
  /\ lastEvent = [k \in Keys |-> "none"]
  /\ accepted = [k \in Keys |-> 0 - 1]
  /\ lastMsg = <<>>
  /\ accessAtTeardown = "none"
  /\ setupErrors = 0
  /\ tweenTarget = [k \in Keys |-> 0 - 1]

\* ------------------------------------------------------------ the key store

Front(s) == SubSeq(s, 1, Len(s) - 1)

\* anim.kill() on the handle stored for k: the stored handle, while live, is
\* the tween started last
KillStored(tw, ar, k) ==
  IF ar[k] = "live" THEN [tw EXCEPT ![k] = Front(@)] ELSE tw

\* animateKey that starts the new tween without killing the stored one
AnimateKeyNoKill(index, down) ==
  IF index \notin keyRefs
    THEN UNCHANGED <<tweens, animationsRef, tweenTarget>>
    ELSE /\ tweens' = [tweens EXCEPT
                         ![index] = Append(@, IF down THEN PressedAngle ELSE RestAngle)]
         /\ animationsRef' = [animationsRef EXCEPT ![index] = "live"]
         /\ tweenTarget' = [tweenTarget EXCEPT
                              ![index] = IF down THEN PressedAngle ELSE RestAngle]

\* animateKey with the two targets swapped: `down ? 0 : 0.05`
AnimateKeyInverted(index, down) ==
  IF index \notin keyRefs
    THEN UNCHANGED <<tweens, animationsRef, tweenTarget>>
    ELSE /\ tweens' = [tweens EXCEPT
                         ![index] = Append(KillStored(tweens, animationsRef, index)[index],
                                           IF down THEN RestAngle ELSE PressedAngle)]
         /\ animationsRef' = [animationsRef EXCEPT ![index] = "live"]
         /\ tweenTarget' = [tweenTarget EXCEPT
                              ![index] = IF down THEN RestAngle ELSE PressedAngle]

\* animateKey(index, down)
AnimateKey(index, down) ==
  IF index \notin keyRefs
    THEN UNCHANGED <<tweens, animationsRef, tweenTarget>>
    ELSE /\ tweens' = [tweens EXCEPT
                         ![index] = Append(KillStored(tweens, animationsRef, index)[index],
                                           IF down THEN PressedAngle ELSE RestAngle)]
         /\ animationsRef' = [animationsRef EXCEPT ![index] = "live"]
         /\ tweenTarget' = [tweenTarget EXCEPT
                              ![index] = IF down THEN PressedAngle ELSE RestAngle]

\* the updater of onKeyDown that toggles membership
PressToggles(prev, index) ==
  IF index \in prev THEN prev \ {index} ELSE prev \cup {index}

\* the updater of onKeyDown: (prev) => prev.has(index) ? prev : prev + index
PressUpdater(prev, index) ==
  IF index \in prev THEN prev ELSE prev \cup {index}

\* the updater of the global-release variant: any release empties the set
ReleaseAll(prev, index) == {}

\* an updater that returns the previous set whatever the index
ReleaseNothing(prev, index) == prev

\* the updater of onKeyUp: (prev) => !prev.has(index) ? prev : prev - index
ReleaseUpdater(prev, index) ==
  IF index \notin prev THEN prev ELSE prev \ {index}

\* setPressedKeys(updater): React drops the update of an unmounted component
SetPressedKeys(next) ==
  pressedKeys' = IF mounted THEN next ELSE pressedKeys

\* onKeyDown(index)
OnKeyDown(index) ==
  IF index < 0 \/ index >= NumKeys
    THEN UNCHANGED keyVars
    ELSE /\ SetPressedKeys(PressUpdater(pressedKeys, index))
         /\ AnimateKey(index, TRUE)
         /\ lastEvent' = [lastEvent EXCEPT ![index] = "press"]

\* onKeyUp(index)
OnKeyUp(index) ==
  IF index < 0 \/ index >= NumKeys
    THEN UNCHANGED keyVars
    ELSE /\ SetPressedKeys(ReleaseUpdater(pressedKeys, index))
         /\ AnimateKey(index, FALSE)
         /\ lastEvent' = [lastEvent EXCEPT ![index] = "release"]

KeyOp(op, key, emit) ==
  [op |-> op, port |-> 0, key |-> key, emit |-> emit,
   noop |-> \/ emit = "press" /\ key \in pressedKeys
            \/ emit = "release" /\ key \notin pressedKeys,
   killed |-> emit \in {"press", "release"} /\ key \in keyRefs
              /\ animationsRef[key] = "live"]

\* a pointer-down sent through the debounce of the MIDI path
PointerDownDebounced(index) ==
  /\ mounted
  /\ IF now - lastMIDIEventTime[index] < DebounceMs
       THEN UNCHANGED <<keyVars, midiVars>>
       ELSE /\ OnKeyDown(index)
            /\ lastMIDIEventTime' = [lastMIDIEventTime EXCEPT ![index] = now]
            /\ UNCHANGED accepted
  /\ last' = KeyOp("pointerdown", index, "press")
  /\ lastMsg' = <<>>
  /\ UNCHANGED layout
  /\ UNCHANGED <<sessionVars, keyRefs, now>>

\* PianoKey onPointerDown: the mesh of key `index` exists while mounted
PointerDown(index) ==
  /\ mounted
  /\ OnKeyDown(index)
  /\ last' = KeyOp("pointerdown", index, "press")
  /\ lastMsg' = <<>>
  /\ UNCHANGED layout
  /\ UNCHANGED <<sessionVars, midiVars, keyRefs, now>>

\* PianoKey onPointerUp
PointerUp(index) ==
  /\ mounted
  /\ OnKeyUp(index)
  /\ last' = KeyOp("pointerup", index, "release")
  /\ lastMsg' = <<>>
  /\ UNCHANGED layout
  /\ UNCHANGED <<sessionVars, midiVars, keyRefs, now>>

\* a tween of key k runs to its end (gsap drops it; the map keeps the handle)
TweenComplete(k, i) ==
  /\ i \in 1..Len(tweens[k])
  /\ tweens' = [tweens EXCEPT
                  ![k] = SubSeq(@, 1, i - 1) \o SubSeq(@, i + 1, Len(@))]
  /\ animationsRef' = [animationsRef EXCEPT
                         ![k] = IF @ = "live" /\ i = Len(tweens[k]) THEN "dead" ELSE @]
  /\ last' = Op("tweencomplete", 0, k, "none")
  /\ lastMsg' = <<>>
  /\ UNCHANGED layout
  /\ UNCHANGED <<sessionVars, midiVars, pressedKeys, lastEvent, tweenTarget, keyRefs, now>>

\* --------------------------------------------------------------- MIDI input

\* `command === 144 && velocity > 0` / `command === 128 || (command === 144 && velocity === 0)`
\* with a zero-velocity note-on taken for a press
ClassifyNoZeroVelocity(command, velocity) ==
  IF command = NoteOn THEN "press"
  ELSE IF command = NoteOff THEN "release"
  ELSE "none"

Classify(command, velocity) ==
  IF command = NoteOn /\ velocity > 0 THEN "press"
  ELSE IF command = NoteOff \/ (command = NoteOn /\ velocity = 0) THEN "release"
  ELSE "none"

\* `now - last < 10`
Debounced(t, lastT) == t - lastT < DebounceMs

\* the range check with its upper bound off by one
OutOfRangeOffByOne(keyIndex) == keyIndex < 0 \/ keyIndex > NumKeys

\* `keyIndex < 0 || keyIndex >= 88`
OutOfRange(keyIndex) == keyIndex < 0 \/ keyIndex >= NumKeys

\* onMIDIMessage(event) with event.data = [command, note, velocity],
\* delivered by port p
OnMIDIMessage(p, command, note, velocity) ==
  LET keyIndex == note - NoteOffset IN
  /\ connected[p]
  /\ handler[p]
  /\ IF OutOfRange(keyIndex)
       THEN /\ last' = Op("midi", 0, keyIndex, "range")
            /\ UNCHANGED <<keyVars, midiVars>>
       ELSE IF Debounced(now, lastMIDIEventTime[keyIndex])
         THEN /\ last' = Op("midi", 0, keyIndex, "debounced")
              /\ UNCHANGED <<keyVars, midiVars>>
         ELSE /\ lastMIDIEventTime' = [lastMIDIEventTime EXCEPT ![keyIndex] = now]
              /\ last' = KeyOp("midi", keyIndex, Classify(command, velocity))
              /\ CASE Classify(command, velocity) = "press" ->
                        /\ OnKeyDown(keyIndex)
                        /\ accepted' = [accepted EXCEPT ![keyIndex] = now]
                   [] Classify(command, velocity) = "release" ->
                        /\ OnKeyUp(keyIndex)
                        /\ accepted' = [accepted EXCEPT ![keyIndex] = now]
                   [] OTHER -> UNCHANGED <<keyVars, accepted>>
  /\ UNCHANGED <<sessionVars, keyRefs, now>>

\* a port delivers a message; its bytes are not kept
Deliver(p, command, note, velocity) ==
  /\ OnMIDIMessage(p, command, note, velocity)
  /\ lastMsg' = <<>>
  /\ UNCHANGED layout

\* a port delivers a message; its command and velocity are kept in lastMsg
DeliverRecorded(p, command, note, velocity) ==
  /\ OnMIDIMessage(p, command, note, velocity)
  /\ lastMsg' = <<command, velocity>>
  /\ UNCHANGED layout

\* a destructured element that is not there: `undefined > 0` and
\* `undefined === 0` are false, as `Undefined > 0` and `Undefined = 0` are
Undefined == 0 - 1

\* a port delivers a two-byte message [command, note]: velocity is undefined
DeliverShort(p, command, note) ==
  /\ OnMIDIMessage(p, command, note, Undefined)
  /\ lastMsg' = <<command, Undefined, "two bytes">>
  /\ UNCHANGED layout

\* a port delivers [command, note, velocity] with the note a numeric string:
\* `note - 21` converts it, the rest of the handler runs as for a number
DeliverStringNote(p, command, note, velocity) ==
  /\ OnMIDIMessage(p, command, note, velocity)
  /\ lastMsg' = <<command, velocity, "string note">>
  /\ UNCHANGED layout

\* a port delivers a one-byte message [command]: keyIndex is NaN, which fails
\* both range tests; the timestamp is stored under "NaN", read by no other
\* message; onKeyUp(NaN) finds NaN neither in the set nor in keyRefs
DeliverByte(p, command) ==
  /\ connected[p]
  /\ handler[p]
  /\ last' = Op("malformed", 0, NoKey, "none")
  /\ lastMsg' = <<command, Undefined, "one byte">>
  /\ UNCHANGED layout
  /\ UNCHANGED <<sessionVars, keyVars, midiVars, keyRefs, now>>

\* a port delivers an event without data: the destructuring throws, the
\* catch logs
DeliverNoData(p) ==
  /\ connected[p]
  /\ handler[p]
  /\ last' = Op("malformed", 0, NoKey, "none")
  /\ lastMsg' = <<Undefined, Undefined, "no data">>
  /\ UNCHANGED layout
  /\ UNCHANGED <<sessionVars, keyVars, midiVars, keyRefs, now>>

\* time passes
Tick(d) ==
  /\ now + d <= MaxTime
  /\ now' = now + d
  /\ last' = Op("tick", 0, NoKey, "none")
  /\ lastMsg' = <<>>
  /\ UNCHANGED layout
  /\ UNCHANGED <<sessionVars, keyVars, midiVars, keyRefs>>

\* ------------------------------------------------------- the device session

\* handleInput with the membership test inverted
HandleInputInverted(h, ai, p) ==
  IF p \in ai THEN [h EXCEPT ![p] = TRUE] ELSE h

\* handleInput(input): the port's handler after the call
HandleInputHandler(h, ai, p) ==
  IF p \notin ai THEN [h EXCEPT ![p] = TRUE] ELSE h

\* handleInput(input): activeInputs after the call
HandleInputActive(ai, p) == ai \cup {p}

\* the ports enumerated by midiAccess.inputs: the attached ones
Inputs == {p \in Ports : connected[p]}

\* the continuation of `await navigator.requestMIDIAccess()` on success:
\* subscribe every attached input, register the hot-plug callback
Grant ==
  /\ access = "pending"
  /\ access' = "granted"
  /\ handler' = [p \in Ports |->
                   IF p \in Inputs THEN HandleInputHandler(handler, activeInputs, p)[p]
                   ELSE handler[p]]
  /\ activeInputs' = activeInputs \cup Inputs
  /\ onstatechange' = TRUE
  /\ last' = Op("grant", 0, NoKey, "none")
  /\ lastMsg' = <<>>
  /\ UNCHANGED layout
  /\ UNCHANGED <<mounted, connected, accessAtTeardown, setupErrors, keyVars, midiVars, keyRefs, now>>

\* a rejection whose catch swallows the error
DenySilent ==
  /\ access = "pending"
  /\ access' = "failed"
  /\ last' = Op("deny", 0, NoKey, "none")
  /\ lastMsg' = <<>>
  /\ UNCHANGED layout
  /\ UNCHANGED <<mounted, onstatechange, connected, handler, activeInputs,
                 accessAtTeardown, setupErrors, keyVars, midiVars, keyRefs, now>>

\* the request is rejected (access denied, API missing): the catch logs
Deny ==
  /\ access = "pending"
  /\ access' = "failed"
  /\ setupErrors' = setupErrors + 1
  /\ last' = Op("deny", 0, NoKey, "none")
  /\ lastMsg' = <<>>
  /\ UNCHANGED layout
  /\ UNCHANGED <<mounted, onstatechange, connected, handler, activeInputs,
                 accessAtTeardown, keyVars, midiVars, keyRefs, now>>

\* midiAccess.onstatechange for a detach that also drops the key state
OnStateChangeReleasing(p, type, state) ==
  /\ IF type = "input" /\ state = "connected"
       THEN /\ handler' = HandleInputHandler(handler, activeInputs, p)
            /\ activeInputs' = HandleInputActive(activeInputs, p)
            /\ UNCHANGED pressedKeys
       ELSE IF type = "input" /\ state = "disconnected"
         THEN /\ activeInputs' = activeInputs \ {p}
              /\ pressedKeys' = {}
              /\ UNCHANGED handler
         ELSE UNCHANGED <<handler, activeInputs, pressedKeys>>

\* midiAccess.onstatechange = (e) => ..., with e.port = p
OnStateChange(p, type, state) ==
  /\ IF type = "input" /\ state = "connected"
       THEN /\ handler' = HandleInputHandler(handler, activeInputs, p)
            /\ activeInputs' = HandleInputActive(activeInputs, p)
       ELSE IF type = "input" /\ state = "disconnected"
         THEN /\ activeInputs' = activeInputs \ {p}
              /\ UNCHANGED handler
         ELSE UNCHANGED <<handler, activeInputs>>
  /\ UNCHANGED pressedKeys

\* the access object notifies its callback, when one is registered
Notify(p, type, state) ==
  IF onstatechange
    THEN OnStateChange(p, type, state)
    ELSE UNCHANGED <<handler, activeInputs, pressedKeys>>

\* input port p is plugged in
Attach(p) ==
  /\ ~connected[p]
  /\ connected' = [connected EXCEPT ![p] = TRUE]
  /\ Notify(p, "input", "connected")
  /\ last' = Op("attach", p, NoKey, "none")
  /\ lastMsg' = <<>>
  /\ UNCHANGED layout
  /\ UNCHANGED <<mounted, access, onstatechange, accessAtTeardown, setupErrors,
                 animationsRef, tweens, lastEvent, tweenTarget, midiVars, keyRefs, now>>

\* input port p is unplugged
Detach(p) ==
  /\ connected[p]
  /\ connected' = [connected EXCEPT ![p] = FALSE]
  /\ Notify(p, "input", "disconnected")
  /\ last' = Op("detach", p, NoKey, "none")
  /\ lastMsg' = <<>>
  /\ UNCHANGED layout
  /\ UNCHANGED <<mounted, access, onstatechange, accessAtTeardown, setupErrors,
                 animationsRef, tweens, lastEvent, tweenTarget, midiVars, keyRefs, now>>

\* a further statechange event for an attached input port (its connection
\* opens or closes): the callback sees port.state === 'connected' again
Redeliver(p) ==
  /\ connected[p]
  /\ onstatechange
  /\ Notify(p, "input", "connected")
  /\ last' = Op("redeliver", p, NoKey, "none")
  /\ lastMsg' = <<>>
  /\ UNCHANGED layout
  /\ UNCHANGED <<mounted, access, onstatechange, connected, accessAtTeardown,
                 setupErrors,
                 animationsRef, tweens, lastEvent, tweenTarget, midiVars, keyRefs, now>>

\* a statechange event for an output port
OutputChange(state) ==
  /\ onstatechange
  /\ Notify(0, "output", state)
  /\ last' = Op("output", 0, NoKey, "none")
  /\ lastMsg' = <<>>
  /\ UNCHANGED layout
  /\ UNCHANGED <<mounted, access, onstatechange, connected, accessAtTeardown,
                 setupErrors,
                 animationsRef, tweens, lastEvent, tweenTarget, midiVars, keyRefs, now>>

\* the cleanups of both effects, run when the component unmounts
Teardown ==
  /\ mounted
  /\ mounted' = FALSE
  /\ accessAtTeardown' = access
  /\ handler' = [p \in Ports |->
                   IF access = "granted" /\ p \in Inputs THEN FALSE ELSE handler[p]]
  /\ tweens' = [k \in Keys |-> KillStored(tweens, animationsRef, k)[k]]
  /\ animationsRef' = [k \in Keys |-> "none"]
  /\ activeInputs' = {}
  /\ keyRefs' = {}
  /\ lastMIDIEventTime' = [k \in MsgKeys |-> 0]
  /\ last' = Op("teardown", 0, NoKey, "none")
  /\ lastMsg' = <<>>
  /\ UNCHANGED layout
  /\ UNCHANGED <<access, onstatechange, connected, setupErrors,
                 pressedKeys, lastEvent, tweenTarget, accepted, now>>

Next ==
  \/ \E k \in Keys : PointerDown(k)
  \/ \E k \in Keys : PointerUp(k)
  \/ \E k \in Keys, i \in 1..2 : TweenComplete(k, i)
  \/ \E p \in Ports, c \in Commands, n \in Notes, v \in Velocities :
       Deliver(p, c, n, v)
  \/ \E d \in TickSteps : Tick(d)
  \/ Grant
  \/ Deny
  \/ \E p \in Ports : Attach(p)
  \/ \E p \in Ports : Detach(p)
  \/ \E p \in Ports : Redeliver(p)
  \/ \E st \in {"connected", "disconnected"} : OutputChange(st)
  \/ Teardown

Spec == Init /\ [][Next]_vars

\* The input pipeline of a session whose access was granted with every port
\* attached: the state Grant leaves when all ports were plugged in at mount.
InitMidi ==
  /\ layout = NoLayout
  /\ mounted = TRUE
  /\ access = "granted"
  /\ onstatechange = TRUE
  /\ connected = [p \in Ports |-> TRUE]
  /\ handler = [p \in Ports |-> TRUE]
  /\ activeInputs = Ports
  /\ pressedKeys = {}
  /\ keyRefs = Keys
  /\ animationsRef = [k \in Keys |-> "none"]
  /\ tweens = [k \in Keys |-> <<>>]
  /\ lastMIDIEventTime = [k \in MsgKeys |-> 0]
  /\ now = StartTime
  /\ last = Op("grant", 0, NoKey, "none")
  /\ lastMsg = <<>>
  /\ lastEvent = [k \in Keys |-> "none"]
  /\ accepted = [k \in Keys |-> 0 - 1]
  /\ accessAtTeardown = "none"
  /\ setupErrors = 0
  /\ tweenTarget = [k \in Keys |-> 0 - 1]

NextMidi ==
  \/ \E k \in Keys : PointerDown(k)
  \/ \E k \in Keys : PointerUp(k)
  \/ \E k \in Keys, i \in 1..2 : TweenComplete(k, i)
  \/ \E p \in Ports, c \in Commands, n \in Notes, v \in Velocities :
       DeliverRecorded(p, c, n, v)
  \/ \E d \in TickSteps : Tick(d)
  \/ Teardown

SpecMidi == InitMidi /\ [][NextMidi]_vars

\* The same session with ports that also deliver malformed messages.
NextMalformed ==
  \/ NextMidi
  \/ \E p \in Ports, c \in Commands, n \in Notes : DeliverShort(p, c, n)
  \/ \E p \in Ports, c \in Commands, n \in Notes, v \in Velocities :
       DeliverStringNote(p, c, n, v)
  \/ \E p \in Ports, c \in Commands : DeliverByte(p, c)
  \/ \E p \in Ports : DeliverNoData(p)

SpecMalformed == InitMidi /\ [][NextMalformed]_vars

\* --------------------------------------------------------------- the layout

\* `1 + noteGap` in thousandths
Pitch == 1050

\* getBlackKeyOffset(index), in thousandths
GetBlackKeyOffset(index) ==
  CASE index % 12 = 1 -> 100
    [] index % 12 = 4 -> 0 - 100
    [] index % 12 = 6 -> 100
    [] index % 12 = 9 -> 0 - 150
    [] index % 12 = 11 -> 0
    [] OTHER -> 0

\* `[1, 4, 6, 9, 11].includes(i % 12)`
IsBlack(i) == (i % 12) \in {1, 4, 6, 9, 11}

\* the loop of keyProps with the white-key counter never incremented
WhiteStepNever(isBlack, whiteKeyIndex) == whiteKeyIndex

\* `if (!isBlack) whiteKeyIndex++`
WhiteStep(isBlack, whiteKeyIndex) ==
  IF ~isBlack THEN whiteKeyIndex + 1 ELSE whiteKeyIndex

\* the body of keyProps: for (let i = 0; i < 88; i++) { ...; keys.push(...) }
RECURSIVE KeyPropsLoop(_, _, _)
KeyPropsLoop(i, whiteKeyIndex, keys) ==
  IF i >= NumKeys
    THEN keys
    ELSE LET isBlack == IsBlack(i)
             offset == GetBlackKeyOffset(i)
             x == IF isBlack
                    THEN (2 * whiteKeyIndex - 1) * (Pitch \div 2) + offset
                    ELSE whiteKeyIndex * Pitch
         IN KeyPropsLoop(i + 1, WhiteStep(isBlack, whiteKeyIndex),
                         Append(keys, [index |-> i, isBlack |-> isBlack, x |-> x]))

KeyProps == KeyPropsLoop(0, 0, <<>>)

\* The component after mount, with two entries of keyProps about to be read.
InitLayout ==
  /\ layout \in [i : 0..(NumKeys - 1), j : 0..(NumKeys - 1), done : {FALSE}, ki : {<<>>}, kj : {<<>>}]
  /\ mounted = TRUE
  /\ access = "pending"
  /\ onstatechange = FALSE
  /\ connected = [p \in Ports |-> FALSE]
  /\ handler = [p \in Ports |-> FALSE]
  /\ activeInputs = {}
  /\ pressedKeys = {}
  /\ keyRefs = Keys
  /\ animationsRef = [k \in Keys |-> "none"]
  /\ tweens = [k \in Keys |-> <<>>]
  /\ lastMIDIEventTime = [k \in MsgKeys |-> 0]
  /\ now = StartTime
  /\ last = Op("mount", 0, NoKey, "none")
  /\ lastEvent = [k \in Keys |-> "none"]
  /\ accepted = [k \in Keys |-> 0 - 1]
  /\ lastMsg = <<>>
  /\ accessAtTeardown = "none"
  /\ setupErrors = 0
  /\ tweenTarget = [k \in Keys |-> 0 - 1]

\* keyProps.map(...): the entries of keys i and j are read
LayoutLookup ==
  /\ ~layout.done
  /\ layout' = [layout EXCEPT !.done = TRUE,
                              !.ki = KeyProps[layout.i + 1],
                              !.kj = KeyProps[layout.j + 1]]
  /\ UNCHANGED <<sessionVars, keyVars, midiVars, keyRefs, now, last, lastMsg>>

SpecLayout == InitLayout /\ [][LayoutLookup]_vars

\* ------------------------------------------------------------------- claims

InRange(n) == n - NoteOffset >= 0 /\ n - NoteOffset < NumKeys
IsNote(c, v) == c = NoteOn \/ c = NoteOff
NoSubscription == /\ \A p \in Ports : ~handler[p]
                  /\ activeInputs = {}

\* C1: while the store lives, PressedSet is exactly the set of keys whose
\* most recent event through onKeyDown/onKeyUp was a press; a redundant press
\* or release does not toggle membership.
C1_PressedIsLastPress ==
  mounted => pressedKeys = {k \in Keys : lastEvent[k] = "press"}

\* a redundant press has just been applied and the key is still pressed
C1_Witness ==
  /\ mounted
  /\ last.emit = "press"
  /\ last.noop
  /\ last.key \in pressedKeys
  /\ \E k \in Keys : lastEvent[k] = "release"

\* C2: a message for a note in [21,108] that the debounce lets through
\* produces a press iff command = 144 and velocity > 0, a release iff
\* command = 128 or (command = 144 and velocity = 0), and nothing otherwise.
C2_Classification ==
  (last.op = "midi" /\ last.emit \notin {"range", "debounced"}) =>
     LET c == lastMsg[1]
         v == lastMsg[2]
         k == last.key
     IN /\ k \in 0..(NumKeys - 1)
        /\ (last.emit = "press" <=> (c = 144 /\ v > 0))
        /\ (last.emit = "release" <=> (c = 128 \/ (c = 144 /\ v = 0)))
        /\ last.emit \in {"press", "release", "none"}
        /\ last.emit = "press" => (lastEvent[k] = "press" /\ (mounted => k \in pressedKeys))
        /\ last.emit = "release" => (lastEvent[k] = "release" /\ (mounted => k \notin pressedKeys))

\* a zero-velocity note-on has just released a key that was pressed
C2_Witness ==
  /\ mounted
  /\ last.op = "midi"
  /\ lastMsg = <<NoteOn, 0>>
  /\ last.emit = "release"
  /\ ~last.noop
  /\ last.key \notin pressedKeys

\* C3 (the claim as stated): a note-on/note-off for key k at time t is
\* ignored when the previous MIDI press/release of k was less than 10 ms
\* before t, and is accepted when it was 10 ms or more before t.
C3_Claim ==
  [][\A p \in Ports, c \in Commands, n \in Notes, v \in Velocities :
       (/\ OnMIDIMessage(p, c, n, v)
        /\ InRange(n)
        /\ IsNote(c, v)
        /\ accepted[n - NoteOffset] >= 0) =>
          IF now - accepted[n - NoteOffset] < 10
            THEN UNCHANGED <<pressedKeys, tweens, animationsRef>>
            ELSE last'.emit \in {"press", "release"}]_vars

\* C4: every key has at most one live tween, and a release leaves exactly
\* one, the release tween targeting angle 0.
C4_OneLiveTween ==
  \A k \in Keys :
    /\ Len(tweens[k]) <= 1
    /\ (mounted /\ last.emit = "release" /\ last.key = k) => tweens[k] = <<RestAngle>>

\* a release has just killed the live tween of its key
C4_Witness ==
  /\ mounted
  /\ last.emit = "release"
  /\ last.killed
  /\ tweens[last.key] = <<RestAngle>>

\* C5 (the claim as stated): after a teardown that found the request
\* pending, no port ever has a handler, no hot-plug callback is registered
\* and there is no subscription.
C5_Claim ==
  accessAtTeardown = "pending" => (NoSubscription /\ ~onstatechange)

\* C6 (the claim as stated): right after the teardown of a granted session,
\* no port subscribed during the session has a handler, no tween is live and
\* the handle map is empty.
C6_Claim ==
  (last.op = "teardown" /\ accessAtTeardown = "granted") =>
     /\ \A p \in Ports : ~handler[p]
     /\ \A k \in Keys : tweens[k] = <<>> /\ animationsRef[k] = "none"

\* C7 (the claim as stated): after the teardown of a granted session a
\* port notification subscribes no port and changes no session state.
C7_Claim ==
  [][(~mounted /\ accessAtTeardown = "granted"
      /\ last'.op \in {"attach", "detach", "redeliver"}) =>
        UNCHANGED <<handler, activeInputs>>]_vars

\* C8 (the claim as stated): a press of a pressed key and a release of a key
\* not pressed change neither PressedSet nor any tween.
C8_Claim ==
  [][\A k \in Keys :
       (\/ PointerDown(k) /\ k \in pressedKeys
        \/ PointerUp(k) /\ k \notin pressedKeys) =>
          UNCHANGED <<pressedKeys, tweens, animationsRef>>]_vars

\* C9 (the claim as stated): after the detach notification of a port, the
\* port has no message handler.
C9_Claim ==
  (last.op = "detach" /\ onstatechange) => ~handler[last.port]

\* C10: a detach leaves PressedSet, the tweens and the debounce timestamps
\* as they were and emits no event.
C10_DetachFrame ==
  [][last'.op = "detach" =>
       UNCHANGED <<pressedKeys, tweens, animationsRef, lastMIDIEventTime, lastEvent>>]_vars

\* a subscribed port has just detached while a key is held and a tween runs
C10_Witness ==
  /\ mounted
  /\ onstatechange
  /\ last.op = "detach"
  /\ pressedKeys # {}
  /\ \E k \in Keys : tweens[k] # <<>>
  /\ \E k \in Keys : lastMIDIEventTime[k] > 0


\* C11: while the session is active, an attach notification leaves the port
\* subscribed (handler installed, one entry in activeInputs), touches no other
\* port, and changes nothing when the port was subscribed already.
C11_AttachIdempotent ==
  [][(mounted /\ onstatechange /\ last'.op \in {"attach", "redeliver"}) =>
       LET p == last'.port IN
       /\ handler'[p]
       /\ p \in activeInputs'
       /\ Cardinality(activeInputs') <= Cardinality(Ports)
       /\ \A q \in Ports \ {p} :
            /\ handler'[q] = handler[q]
            /\ (q \in activeInputs') = (q \in activeInputs)
       /\ (handler[p] /\ p \in activeInputs) => UNCHANGED <<handler, activeInputs>>]_vars

\* an attach notification was delivered again for a subscribed port
C11_Witness ==
  /\ mounted
  /\ onstatechange
  /\ last.op = "redeliver"
  /\ handler[last.port]
  /\ last.port \in activeInputs


\* C12: a message whose note maps outside [0,88) is ignored whatever its
\* command and velocity: no event, PressedSet, tweens and timestamps unchanged.
C12_OutOfRangeIgnored ==
  [][(last'.op = "midi" /\ ~InRange(last'.key + NoteOffset)) =>
       /\ last'.emit = "range"
       /\ UNCHANGED <<keyVars, midiVars>>]_vars

\* a note-on with velocity for the note below the keyboard was just ignored
\* while a key is held
C12_Witness ==
  /\ mounted
  /\ last.op = "midi"
  /\ last.key = 0 - 1
  /\ lastMsg = <<NoteOn, 1>>
  /\ last.emit = "range"
  /\ pressedKeys # {}


\* C13 (the claim as stated): a message that is not three numeric bytes
\* changes nothing a later message depends on: PressedSet, the tweens, the
\* debounce timestamps and the session are as before it.
C13_Claim ==
  [][(\/ last'.op = "malformed"
      \/ last'.op = "midi" /\ Len(lastMsg') = 3) =>
        UNCHANGED <<pressedKeys, animationsRef, tweens, lastEvent,
                    lastMIDIEventTime, sessionVars, keyRefs>>]_vars


\* C14: a failed request is reported exactly once and is final: no port is
\* ever subscribed, no hot-plug callback is registered, and pointer presses
\* and releases keep updating PressedSet.
C14_FailedAccess ==
  /\ setupErrors = (IF access = "failed" THEN 1 ELSE 0)
  /\ access = "failed" =>
       /\ NoSubscription
       /\ ~onstatechange
       /\ (mounted /\ last.op = "pointerdown") => last.key \in pressedKeys
       /\ (mounted /\ last.op = "pointerup") => last.key \notin pressedKeys

\* after the failure, with a port plugged in, a pointer press was applied
C14_Witness ==
  /\ access = "failed"
  /\ mounted
  /\ \E p \in Ports : connected[p]
  /\ last.op = "pointerdown"
  /\ pressedKeys = {last.key}


\* the number of white keys below key i
WhitesBelow(i) == Cardinality({m \in 0..(i - 1) : (m % 12) \notin {1, 4, 6, 9, 11}})

\* C15: key i is black iff i mod 12 is in {1,4,6,9,11}; the n-th white key
\* is at n * (1 + gap), so white x-coordinates increase strictly with i.
C15_Layout ==
  layout # NoLayout /\ layout.done =>
    LET i == layout.i
        j == layout.j
        ki == layout.ki
        kj == layout.kj
    IN /\ ki.index = i
       /\ ki.isBlack <=> ((i % 12) \in {1, 4, 6, 9, 11})
       /\ ~ki.isBlack => ki.x = WhitesBelow(i) * 1050
       /\ (~ki.isBlack /\ ~kj.isBlack /\ i < j) => ki.x < kj.x

\* two white keys an octave apart, with black keys between them, were read
C15_Witness ==
  /\ layout # NoLayout
  /\ layout.done
  /\ layout.i = 3
  /\ layout.j = 15
  /\ ~layout.ki.isBlack
  /\ ~layout.kj.isBlack
  /\ layout.ki.x < layout.kj.x


\* C16: a pointer-down or pointer-up on key k is applied whatever the time
\* since the last event for k, and leaves the MIDI debounce timestamps as
\* they were.
C16_PointerNotDebounced ==
  [][last'.op \in {"pointerdown", "pointerup"} =>
       LET k == last'.key IN
       /\ UNCHANGED <<lastMIDIEventTime, accepted>>
       /\ last'.op = "pointerdown" =>
            (k \in pressedKeys' /\ lastEvent'[k] = "press" /\ tweens'[k] = <<PressedAngle>>)
       /\ last'.op = "pointerup" =>
            (k \notin pressedKeys' /\ lastEvent'[k] = "release" /\ tweens'[k] = <<RestAngle>>)]_vars

\* a pointer press was applied in the same millisecond as a MIDI release of
\* the same key
C16_Witness ==
  /\ last.op = "pointerdown"
  /\ accepted[last.key] = now
  /\ lastMIDIEventTime[last.key] = now
  /\ lastEvent[last.key] = "press"
  /\ last.key \in pressedKeys


\* C17 (the claim as stated): the debounce window of k runs only from the
\* last MIDI press/release of k, so a note-on/note-off for k is rejected only
\* when such an event happened less than 10 ms before it.
C17_Claim ==
  (last.op = "midi" /\ last.emit = "debounced" /\ lastMsg[1] \in {NoteOn, NoteOff}) =>
     /\ accepted[last.key] >= 0
     /\ now - accepted[last.key] < 10


\* C18: a pointer-down/up or a MIDI message for key k changes membership,
\* tween, handle and debounce timestamp of no key other than k.
C18_PerKey ==
  [][last'.op \in {"pointerdown", "pointerup", "midi"} =>
       \A j \in Keys \ {last'.key} :
         /\ (j \in pressedKeys') = (j \in pressedKeys)
         /\ tweens'[j] = tweens[j]
         /\ animationsRef'[j] = animationsRef[j]
         /\ lastMIDIEventTime'[j] = lastMIDIEventTime[j]]_vars

\* a pointer-up has just released one key while another stays pressed with
\* its tween running
C18_Witness ==
  /\ mounted
  /\ last.op = "pointerup"
  /\ ~last.noop
  /\ \E j \in Keys \ {last.key} :
       /\ j \in pressedKeys
       /\ tweens[j] = <<PressedAngle>>
       /\ lastMIDIEventTime[j] > 0


\* C19: while mounted, the tween started last for a key targets the pressed
\* angle iff the key is in PressedSet (coloured as pressed) and the rest
\* angle otherwise; a key that never got a tween is not pressed.
C19_ChannelsAgree ==
  mounted =>
    \A k \in Keys :
      /\ tweenTarget[k] = 0 - 1 => k \notin pressedKeys
      /\ tweenTarget[k] # 0 - 1 =>
           /\ tweenTarget[k] \in {PressedAngle, RestAngle}
           /\ (tweenTarget[k] = PressedAngle) <=> (k \in pressedKeys)
      /\ animationsRef[k] = "live" => tweens[k][Len(tweens[k])] = tweenTarget[k]

\* one key is held with its press tween finished, another was released and
\* its release tween still runs
C19_Witness ==
  /\ mounted
  /\ \E k \in Keys :
       /\ k \in pressedKeys
       /\ animationsRef[k] = "dead"
       /\ tweenTarget[k] = PressedAngle
  /\ \E j \in Keys :
       /\ j \notin pressedKeys
       /\ tweens[j] = <<RestAngle>>


\* the message handled last is a note-off for a key of the keyboard
LastIsNoteOff ==
  /\ last.op = "midi"
  /\ last.emit # "range"
  /\ \/ lastMsg[1] = NoteOff
     \/ lastMsg[1] = NoteOn /\ lastMsg[2] = 0

\* C20 (the claim as stated): once a note-off for key k has been handled, k
\* is not in PressedSet, however soon the note-off follows the note-on.
\* Stated for the keys whose debounce window was started by a MIDI press or
\* release, the only messages that start it according to C17.
C20_Claim ==
  (/\ mounted
   /\ LastIsNoteOff
   /\ accepted[last.key] = lastMIDIEventTime[last.key]) =>
      last.key \notin pressedKeys

\* C20 (amended): once a note-off for key k that the debounce did not reject
\* has been handled, k is not in PressedSet.
C20_NoStuckKey ==
  (mounted /\ LastIsNoteOff /\ last.emit # "debounced") =>
     /\ last.emit = "release"
     /\ last.key \notin pressedKeys

\* a note-off that passed the debounce released a key that was held
C20_Witness ==
  /\ mounted
  /\ LastIsNoteOff
  /\ lastMsg = <<NoteOff, 0>>
  /\ last.emit = "release"
  /\ ~last.noop
  /\ lastEvent[last.key] = "release"
  /\ lastMIDIEventTime[last.key] = now

====
